---- MODULE Spec2Model ----
(***************************************************************************)
(* The quiz session of src/quiz.py (class QuizGame) as a state machine.    *)
(*                                                                         *)
(* Units.  Time is counted in tenths of a second (time.time() readings),   *)
(* score in half points (the code adds 1 and 0.5), so that both stay       *)
(* integers.  Python's None is the string None; a question record always   *)
(* carries the fields category and difficulty, with None standing for a    *)
(* field the JSON record lacks (what q.get(field) returns).                *)
(***************************************************************************)
EXTENDS Integers, Sequences, FiniteSets, TLC

VARIABLES
    questions,            \* self.questions
    categories,           \* self.categories
    selected_category,    \* self.selected_category
    selected_difficulty,  \* self.selected_difficulty
    filtered_questions,   \* self.filtered_questions
    score,                \* self.score, in half points
    current_question,     \* self.current_question
    quiz_start_time,      \* self.quiz_start_time
    quiz_duration,        \* self.quiz_duration
    user_answers,         \* self.user_answers
    pc,                   \* where run() stands
    qi,                   \* position of run()'s for loop in filtered_questions
    now,                  \* the clock, time.time()
    start_time,           \* ask_question's local start_time
    prompts,              \* prompts issued for the question being asked
    ret,                  \* what ask_question returned: (answer, is_quick)
    last,                 \* the last pass of ask_question's loop
    resolved,             \* how each presented question ended, in order
    shown,                \* the numbers last printed: progress and header
    report,               \* what show_results computed
    review_out,           \* what review_answers printed
    runs                  \* calls of run() on this engine so far

vars == <<questions, categories, selected_category, selected_difficulty,
          filtered_questions, score, current_question, quiz_start_time,
          quiz_duration, user_answers, pc, qi, now, start_time, prompts,
          ret, last, resolved, shown, report, review_out, runs>>

-----------------------------------------------------------------------------
(* Program constants *)

None == "None"

\* filtered[:10]
MaxQuestions == 10

\* time.time() - start_time > 10
Deadline == 100

\* time_taken < 5
QuickLimit == 50

\* self.score += 1
Point == 2

\* self.score += 0.5
QuickBonus == 1

\* time.sleep(1) in check_answer
FeedbackSleep == 10

\* time.sleep(0.5) at the end of the loop body
PauseSleep == 5

difficulty_levels == <<"Easy", "Medium", "Hard">>

-----------------------------------------------------------------------------
(* Bounds of the model *)

\* longest bank handed to filter_questions in SpecSelect
MaxBank == 11

\* shuffles of lists up to this length are all permutations
FullShuffleLen == 3

\* prompts ask_question issues for one question before the model stops
\* feeding it invalid lines
MaxPrompts == 2

\* tenths of a second that may pass between ask_question's two clock reads
MaxDrift == 1

\* calls of run() on one engine in SpecRerun
MaxRuns == 2

-----------------------------------------------------------------------------
(* Helpers *)

Min(a, b) == IF a < b THEN a ELSE b

Take(s, n) == SubSeq(s, 1, Min(n, Len(s)))

Range(s) == {s[i] : i \in 1..Len(s)}

\* Number of positions of s holding x
Occurrences(s, x) == Cardinality({i \in 1..Len(s) : s[i] = x})

\* Python truthiness of a filter value: None and the empty string are falsy
Truthy(v) == v /= None /\ v /= ""

\* str.upper() on the lines the model feeds
Upper(line) ==
    CASE line = "a" -> "A"
      [] line = "b" -> "B"
      [] line = "c" -> "C"
      [] line = "s" -> "S"
      [] OTHER -> line

\* sorted(): the category names of the model in lexicographic order
CategoryOrder == <<"", "Fn", "Py", "Python Basics", "Python Functions">>

Sorted(S) == SelectSeq(CategoryOrder, LAMBDA c : c \in S)

\* set(q['category'] for q in questions if 'category' in q)
CategoriesOf(qs) == {qs[i].category : i \in {j \in 1..Len(qs) : qs[j].category /= None}}

Question(id, opts, correct, cat, diff) ==
    [question |-> id, options |-> opts, correct_answer |-> correct,
     category |-> cat, difficulty |-> diff]

-----------------------------------------------------------------------------
(* filter_questions *)

\* The loop body's two tests: q is appended unless one of them continues
Keeps(q, cat, diff) ==
    /\ ~(Truthy(cat) /\ q.category /= cat)
    /\ ~(Truthy(diff) /\ q.difficulty /= diff)

Filtered(qs, cat, diff) == SelectSeq(qs, LAMBDA q : Keeps(q, cat, diff))

\* random.shuffle: the permutations of 1..n it may produce.  Every
\* permutation for short lists; for longer ones the rotations and their
\* reversals.
Shuffles(n) ==
    IF n <= FullShuffleLen
    THEN {p \in [1..n -> 1..n] : \A i, j \in 1..n : p[i] = p[j] => i = j}
    ELSE {[i \in 1..n |-> ((i - 1 + r) % n) + 1] : r \in 0..(n - 1)}
         \cup {[i \in 1..n |-> n - ((i - 1 + r) % n)] : r \in 0..(n - 1)}

\* A shuffle that draws with replacement
PermuteWithReplacement(s, p) == [i \in 1..Len(s) |-> s[p[1]]]

Permute(s, p) == [i \in 1..Len(s) |-> s[p[i]]]

\* filter_questions without its fallback to the whole bank
FilterResultsNoFallback(qs, cat, diff) ==
    {Take(Permute(Filtered(qs, cat, diff), p), MaxQuestions) :
        p \in Shuffles(Len(Filtered(qs, cat, diff)))}

\* What filter_questions may return
FilterResults(qs, cat, diff) ==
    LET filtered == Filtered(qs, cat, diff)
    IN  IF filtered = <<>>
        THEN {qs}
        ELSE {Take(Permute(filtered, p), MaxQuestions) : p \in Shuffles(Len(filtered))}

-----------------------------------------------------------------------------
(* Inputs *)

QEasy == Question(1, <<"A", "B">>, "B", "Py", "Easy")
QMedium == Question(2, <<"A", "B">>, "A", "Fn", "Medium")
QBare == Question(3, <<"A", "B">>, "A", None, None)
QBlank == Question(4, <<"A", "B">>, "B", "", "Easy")
QFnEasy == Question(5, <<"A", "B">>, "A", "Fn", "Easy")
\* a question whose option letters are stored in lower case
QLower == Question(6, <<"a", "b">>, "a", "Py", "Easy")

\* The question banks questions.json may hold in Spec
Banks ==
    { <<>>,
      <<QEasy>>,
      <<QEasy, QMedium>>,
      <<QBare, QEasy>>,
      <<QBlank, QFnEasy>>,
      <<QLower>> }

\* sample_data: the three questions written to questions.json when the
\* file does not exist
SampleBank ==
    << Question(101, <<"A", "B", "C", "D">>, "B", "Python Basics", "Easy"),
       Question(102, <<"A", "B", "C", "D">>, "C", "Python Basics", "Easy"),
       Question(103, <<"A", "B", "C", "D">>, "B", "Python Functions", "Medium") >>

\* The lines the user may type in SpecSample
SampleLines == {"B", "C", "S", "X"}

\* The i-th question of a long bank: pattern k fixes its fields.  Pattern 5
\* repeats two records, the others give every question its own text.
PatternQuestion(k, i) ==
    CASE k = 1 -> Question(i, <<"A", "B">>, "A", "Py", "Easy")
      [] k = 2 -> IF i % 2 = 1
                  THEN Question(i, <<"A", "B">>, "A", "Py", "Easy")
                  ELSE Question(i, <<"A", "B">>, "B", "Fn", "Medium")
      [] k = 3 -> CASE i % 3 = 1 -> Question(i, <<"A", "B">>, "A", "Py", "Easy")
                    [] i % 3 = 2 -> Question(i, <<"A", "B">>, "B", "Fn", "Easy")
                    [] OTHER -> Question(i, <<"A", "B">>, "A", None, None)
      [] k = 4 -> IF i % 2 = 1
                  THEN Question(i, <<"A", "B">>, "A", "", "Easy")
                  ELSE Question(i, <<"A", "B">>, "B", "Py", "Easy")
      [] OTHER -> Question(i % 2, <<"A", "B">>, "A", "Py", "Easy")

Patterns == 1..5

\* The question banks of SpecSelect: every length up to MaxBank
LongBanks == {[i \in 1..n |-> PatternQuestion(k, i)] : n \in 0..MaxBank, k \in Patterns}

\* The lines the user may type
Lines == {"A", "B", "b", "S", "s", "X"}

\* Seconds (in tenths) since presentation at which the clock is looked at
ElapsedPoints == {49, 50, 100, 101}

NoRet == [answer |-> None, is_quick |-> FALSE]
NoLast == [line |-> None, elapsed |-> 0, time_taken |-> 0, outcome |-> "None"]
NoShown == [progress |-> 0, total |-> 0, number |-> 0]
NoReport == [score |-> 0, total |-> 0, tier |-> None]

-----------------------------------------------------------------------------
(* State after QuizGame() *)

Constructed ==
    /\ questions = <<>>
    /\ categories = {}
    /\ selected_category = None
    /\ selected_difficulty = None
    /\ filtered_questions = <<>>
    /\ score = 0
    /\ current_question = 0
    /\ quiz_start_time = 0
    /\ quiz_duration = 0
    /\ user_answers = <<>>
    /\ qi = 0
    /\ now = 0
    /\ start_time = 0
    /\ prompts = 0
    /\ ret = NoRet
    /\ last = NoLast
    /\ resolved = <<>>
    /\ shown = NoShown
    /\ report = NoReport
    /\ review_out = <<>>
    /\ runs = 1

Init == Constructed /\ pc = "load"

-----------------------------------------------------------------------------
(* run() *)

\* load_questions, for the banks questions.json may hold (an unreadable
\* file leaves the empty bank of the constructor)
Load(banks) ==
    /\ pc = "load"
    /\ \E bank \in banks :
        /\ questions' = bank
        /\ categories' = CategoriesOf(bank)
    /\ pc' = "select_category"
    /\ UNCHANGED <<selected_category, selected_difficulty, filtered_questions,
                   score, current_question, quiz_start_time, quiz_duration,
                   user_answers, qi, now, start_time, prompts, ret, last,
                   resolved, shown, report, review_out,
                   runs>>

\* select_category: a number in 1..len+1, the last one meaning all
SelectCategory ==
    /\ pc = "select_category"
    /\ IF categories = {}
       THEN UNCHANGED selected_category
       ELSE \E choice \in 1..(Cardinality(categories) + 1) :
                selected_category' =
                    IF choice = Cardinality(categories) + 1
                    THEN None
                    ELSE Sorted(categories)[choice]
    /\ pc' = "select_difficulty"
    /\ UNCHANGED <<questions, categories, selected_difficulty,
                   filtered_questions, score, current_question,
                   quiz_start_time, quiz_duration, user_answers, qi, now,
                   start_time, prompts, ret, last, resolved, shown, report,
                   review_out,
                   runs>>

\* select_difficulty: a number in 1..3
SelectDifficulty ==
    /\ pc = "select_difficulty"
    /\ \E choice \in 1..Len(difficulty_levels) :
        selected_difficulty' = difficulty_levels[choice]
    /\ pc' = "filter"
    /\ UNCHANGED <<questions, categories, selected_category,
                   filtered_questions, score, current_question,
                   quiz_start_time, quiz_duration, user_answers, qi, now,
                   start_time, prompts, ret, last, resolved, shown, report,
                   review_out,
                   runs>>

\* run() going on to the quiz whatever filter_questions returned
AfterFilterNoExit(result) == "press_enter"

\* if not self.filtered_questions: ... return
AfterFilter(result) == IF result = <<>> THEN "exit" ELSE "press_enter"

\* self.filtered_questions = self.filter_questions(), and the test after it
FilterQuestions ==
    /\ pc = "filter"
    /\ \E result \in FilterResults(questions, selected_category, selected_difficulty) :
        /\ filtered_questions' = result
        /\ pc' = AfterFilter(result)
    /\ UNCHANGED <<questions, categories, selected_category,
                   selected_difficulty, score, current_question,
                   quiz_start_time, quiz_duration, user_answers, qi, now,
                   start_time, prompts, ret, last, resolved, shown, report,
                   review_out,
                   runs>>

\* input("Press Enter to start the quiz...") returns
StartQuiz ==
    /\ pc = "press_enter"
    /\ quiz_start_time' = now
    /\ pc' = "loop"
    /\ UNCHANGED <<questions, categories, selected_category,
                   selected_difficulty, filtered_questions, score,
                   current_question, quiz_duration, user_answers, qi, now,
                   start_time, prompts, ret, last, resolved, shown, report,
                   review_out,
                   runs>>

\* show_progress prints current_question + 1 over the number of questions;
\* ask_question's header prints current_question + 1 as well
Progress(cq, total) == [progress |-> cq + 1, total |-> total, number |-> cq + 1]

\* A counter that moves by two
AdvanceTwice(cq) == cq + 2

\* self.current_question += 1
Advance(cq) == cq + 1

\* The loop takes the next question: the counter moves, show_progress
\* prints, ask_question prints the question and reads start_time
NextQuestion ==
    /\ pc = "loop"
    /\ qi < Len(filtered_questions)
    /\ qi' = qi + 1
    /\ current_question' = Advance(current_question)
    /\ shown' = Progress(current_question', Len(filtered_questions))
    /\ start_time' = now
    /\ prompts' = 1
    /\ last' = NoLast
    /\ ret' = NoRet
    /\ pc' = "ask"
    /\ UNCHANGED <<questions, categories, selected_category,
                   selected_difficulty, filtered_questions, score,
                   quiz_start_time, quiz_duration, user_answers, now,
                   resolved, report, review_out,
                   runs>>

\* Time passes while input() blocks
Tick ==
    /\ pc = "ask"
    /\ \E e \in ElapsedPoints :
        /\ e > now - start_time
        /\ now' = start_time + e
    /\ UNCHANGED <<questions, categories, selected_category,
                   selected_difficulty, filtered_questions, score,
                   current_question, quiz_start_time, quiz_duration,
                   user_answers, pc, qi, start_time, prompts, ret, last,
                   resolved, shown, report, review_out,
                   runs>>

\* The deadline compared in the wrong unit
TimeUpLate(elapsed) == elapsed > 10 * Deadline

\* time.time() - start_time > 10
TimeUp(elapsed) == elapsed > Deadline

\* The bonus limit taken inclusively
IsQuickInclusive(time_taken) == time_taken <= QuickLimit

\* time_taken < 5
IsQuick(time_taken) == time_taken < QuickLimit

\* [opt['letter'] for opt in options]
Letters(q) == Range(q.options)

\* The chain with its else branch giving up on the question
ClassifyInvalidSkips(answer, elapsed, q) ==
    IF elapsed > Deadline THEN "TimedOut"
    ELSE IF answer = "S" THEN "Skipped"
    ELSE IF answer \in Range(q.options) THEN "Answered"
    ELSE "Skipped"

\* The chain with the line's content tested before the clock
ClassifyContentFirst(answer, elapsed, q) ==
    IF answer = "S" THEN "Skipped"
    ELSE IF answer \in Range(q.options) THEN "Answered"
    ELSE IF elapsed > Deadline THEN "TimedOut"
    ELSE "Invalid"

\* The if / elif chain of ask_question's loop on the upper-cased line
Classify(answer, elapsed, q) ==
    IF TimeUp(elapsed) THEN "TimedOut"
    ELSE IF answer = "S" THEN "Skipped"
    ELSE IF answer \in Letters(q) THEN "Answered"
    ELSE "Invalid"

\* One pass of ask_question's loop: input() returns line
AskQuestion(line) ==
    /\ pc = "ask"
    /\ LET question == filtered_questions[qi]
           answer == Upper(line)
           elapsed == now - start_time
           outcome == Classify(answer, elapsed, question)
       IN  \/ /\ outcome \in {"TimedOut", "Skipped"}
              /\ ret' = [answer |-> None, is_quick |-> FALSE]
              /\ last' = [line |-> line, elapsed |-> elapsed,
                          time_taken |-> elapsed, outcome |-> outcome]
              /\ resolved' = Append(resolved, [outcome |-> outcome,
                                               answer |-> None, is_quick |-> FALSE])
              /\ pc' = "returned"
              /\ UNCHANGED <<now, prompts>>
           \/ /\ outcome = "Answered"
              /\ \E drift \in 0..MaxDrift :
                   LET time_taken == elapsed + drift
                   IN  /\ now' = now + drift
                       /\ ret' = [answer |-> answer, is_quick |-> IsQuick(time_taken)]
                       /\ last' = [line |-> line, elapsed |-> elapsed,
                                   time_taken |-> time_taken, outcome |-> outcome]
                       /\ resolved' = Append(resolved,
                                         [outcome |-> outcome, answer |-> answer,
                                          is_quick |-> IsQuick(time_taken)])
              /\ pc' = "returned"
              /\ UNCHANGED prompts
           \/ /\ outcome = "Invalid"
              /\ prompts < MaxPrompts
              /\ prompts' = prompts + 1
              /\ last' = [line |-> line, elapsed |-> elapsed,
                          time_taken |-> elapsed, outcome |-> outcome]
              /\ UNCHANGED <<now, ret, resolved, pc>>
    /\ UNCHANGED <<questions, categories, selected_category,
                   selected_difficulty, filtered_questions, score,
                   current_question, quiz_start_time, quiz_duration,
                   user_answers, qi, start_time, shown, report, review_out,
                   runs>>

\* The answer compared with the first option instead of the correct one
IsCorrectFirstOption(user_answer, q) == user_answer = q.options[1]

\* correct = user_answer == question['correct_answer']
IsCorrect(user_answer, q) == user_answer = q.correct_answer

\* A record that marks every answer as correct
AnswerRecordAllCorrect(user_answer, q) ==
    [question |-> q.question, user_answer |-> user_answer,
     correct_answer |-> q.correct_answer, is_correct |-> TRUE]

\* The dictionary check_answer appends
AnswerRecord(user_answer, q) ==
    [question |-> q.question, user_answer |-> user_answer,
     correct_answer |-> q.correct_answer, is_correct |-> IsCorrect(user_answer, q)]

\* A scorer that takes half a point away for a wrong answer
ScoredWithPenalty(s, user_answer, q) ==
    IF user_answer = q.correct_answer THEN s + Point ELSE s - 1

\* The score check_answer leaves
Scored(s, user_answer, q) == IF IsCorrect(user_answer, q) THEN s + Point ELSE s

\* check_answer called whatever ask_question returned
AnsweredAlways(answer) == TRUE

\* if answer is not None:
Answered(answer) == answer /= None

\* self.check_answer(answer, question), to the end of its time.sleep(1)
CheckAnswer ==
    /\ pc = "returned"
    /\ Answered(ret.answer)
    /\ score' = Scored(score, ret.answer, filtered_questions[qi])
    /\ user_answers' = Append(user_answers, AnswerRecord(ret.answer, filtered_questions[qi]))
    /\ now' = now + FeedbackSleep
    /\ pc' = "checked"
    /\ UNCHANGED <<questions, categories, selected_category,
                   selected_difficulty, filtered_questions, current_question,
                   quiz_start_time, quiz_duration, qi, start_time, prompts,
                   ret, last, resolved, shown, report, review_out,
                   runs>>

\* A bonus of a whole point
WithBonusFullPoint(s, is_quick) == IF is_quick THEN s + Point ELSE s

\* The score after the if is_quick: of the loop body
WithBonus(s, is_quick) == IF is_quick THEN s + QuickBonus ELSE s

\* The rest of the loop body: the quick bonus of an answered question, and
\* time.sleep(0.5)
EndQuestion ==
    /\ \/ pc = "checked" /\ score' = WithBonus(score, ret.is_quick)
       \/ pc = "returned" /\ ~Answered(ret.answer) /\ UNCHANGED score
    /\ now' = now + PauseSleep
    /\ pc' = "loop"
    /\ UNCHANGED <<questions, categories, selected_category,
                   selected_difficulty, filtered_questions, current_question,
                   quiz_start_time, quiz_duration, user_answers, qi,
                   start_time, prompts, ret, last, resolved, shown, report,
                   review_out,
                   runs>>

\* The percentage taken over the cap of a session instead of its length
TierOverCap(s, total) ==
    IF s * 100 >= 90 * Point * MaxQuestions THEN "Excellent"
    ELSE IF s * 100 >= 70 * Point * MaxQuestions THEN "Great"
    ELSE IF s * 100 >= 50 * Point * MaxQuestions THEN "Good"
    ELSE "Needs improvement"

\* The feedback line show_results picks: percentage = score / total * 100
\* against 90, 70 and 50, with score in half points
Tier(s, total) ==
    LET pct100 == IF total > 0 THEN s * 100 ELSE 0
        unit == IF total > 0 THEN Point * total ELSE 1
    IN  IF pct100 >= 90 * unit THEN "Excellent"
        ELSE IF pct100 >= 70 * unit THEN "Great"
        ELSE IF pct100 >= 50 * unit THEN "Good"
        ELSE "Needs improvement"

\* The loop is exhausted: quiz_duration, then show_results up to its
\* input("Would you like to review your answers?")
ShowResults ==
    /\ pc = "loop"
    /\ qi = Len(filtered_questions)
    /\ quiz_duration' = now - quiz_start_time
    /\ report' = [score |-> score, total |-> Len(filtered_questions),
                  tier |-> Tier(score, Len(filtered_questions))]
    /\ pc' = "results"
    /\ UNCHANGED <<questions, categories, selected_category,
                   selected_difficulty, filtered_questions, score,
                   current_question, quiz_start_time, user_answers, qi, now,
                   start_time, prompts, ret, last, resolved, shown,
                   review_out,
                   runs>>

\* The answer to the review question: review_answers prints the log on Y
Review(yes) ==
    /\ pc = "results"
    /\ review_out' = IF yes THEN user_answers ELSE <<>>
    /\ pc' = "done"
    /\ UNCHANGED <<questions, categories, selected_category,
                   selected_difficulty, filtered_questions, score,
                   current_question, quiz_start_time, quiz_duration,
                   user_answers, qi, now, start_time, prompts, ret, last,
                   resolved, shown, report,
                   runs>>

\* run() is called again on the engine whose run() has returned.  Nothing
\* is reset: run() starts with load_questions, and its for loop starts over.
Rerun ==
    /\ pc \in {"done", "exit"}
    /\ runs < MaxRuns
    /\ runs' = runs + 1
    /\ qi' = 0
    /\ pc' = "load"
    /\ UNCHANGED <<questions, categories, selected_category,
                   selected_difficulty, filtered_questions, score,
                   current_question, quiz_start_time, quiz_duration,
                   user_answers, now, start_time, prompts, ret, last,
                   resolved, shown, report, review_out>>

LoadQuestions == Load(Banks)

LoadLongBank == Load(LongBanks)

Next ==
    \/ LoadQuestions
    \/ SelectCategory
    \/ SelectDifficulty
    \/ FilterQuestions
    \/ StartQuiz
    \/ NextQuestion
    \/ Tick
    \/ \E line \in Lines : AskQuestion(line)
    \/ CheckAnswer
    \/ EndQuestion
    \/ ShowResults
    \/ \E yes \in BOOLEAN : Review(yes)

Spec == Init /\ [][Next]_vars

\* The selection alone, on banks longer than the cap of a session
NextSelect ==
    \/ LoadLongBank
    \/ SelectCategory
    \/ SelectDifficulty
    \/ FilterQuestions

SpecSelect == Init /\ [][NextSelect]_vars

LoadSample == Load({SampleBank})

\* The session on the sample bank
NextSample ==
    \/ LoadSample
    \/ SelectCategory
    \/ SelectDifficulty
    \/ FilterQuestions
    \/ StartQuiz
    \/ NextQuestion
    \/ Tick
    \/ \E line \in SampleLines : AskQuestion(line)
    \/ CheckAnswer
    \/ EndQuestion
    \/ ShowResults
    \/ \E yes \in BOOLEAN : Review(yes)

SpecSample == Init /\ [][NextSample]_vars

LoadOneQuestion == Load({<<QEasy>>})

\* Sessions on one engine, one after the other
NextRerun ==
    \/ LoadOneQuestion
    \/ SelectCategory
    \/ SelectDifficulty
    \/ FilterQuestions
    \/ StartQuiz
    \/ NextQuestion
    \/ Tick
    \/ \E line \in Lines : AskQuestion(line)
    \/ CheckAnswer
    \/ EndQuestion
    \/ ShowResults
    \/ \E yes \in BOOLEAN : Review(yes)
    \/ Rerun

SpecRerun == Init /\ [][NextRerun]_vars

\* The steps run() takes without waiting for a line from the user
Internal ==
    \/ LoadQuestions
    \/ FilterQuestions
    \/ NextQuestion
    \/ CheckAnswer
    \/ EndQuestion
    \/ ShowResults

\* The session with a clock that keeps running and a program that keeps
\* taking the steps it can take; the user is free never to type a line
SpecLive == Init /\ [][Next]_vars /\ WF_vars(Tick) /\ WF_vars(Internal)

-----------------------------------------------------------------------------
(* Properties *)

\* filter_questions has returned and run() has stored its result
FilterDone == pc \notin {"load", "select_category", "select_difficulty", "filter"}

\* A question satisfies the session filter as the specification words it
Satisfies(q, cat, diff) ==
    /\ cat = None \/ q.category = cat
    /\ diff = None \/ q.difficulty = diff

Matching == SelectSeq(questions,
                LAMBDA q : Satisfies(q, selected_category, selected_difficulty))

\* The questions the two tests of filter_questions let through
Kept == Filtered(questions, selected_category, selected_difficulty)

\* C1: whatever the bank and the selected category and difficulty,
\* filter_questions returns at most 10 questions, the fallback to the
\* unfiltered bank included.
C1_AtMostTen == FilterDone => Len(filtered_questions) <= MaxQuestions

\* C2: when at least one question of the bank matches the filter, every
\* question filter_questions returns satisfies it (category is None or
\* equal, and difficulty is None or equal).
C2_AllSatisfy ==
    (FilterDone /\ Matching /= <<>>) =>
        \A i \in 1..Len(filtered_questions) :
            Satisfies(filtered_questions[i], selected_category, selected_difficulty)

\* C3: when no question of a non-empty bank matches, filter_questions
\* returns a non-empty result made of questions of the bank (the whole bank
\* when its tests let nothing through), run() does not take its early
\* exit, and the questions asked are questions of that result.
C3_Fallback ==
    (FilterDone /\ questions /= <<>> /\ Matching = <<>>) =>
        /\ filtered_questions /= <<>>
        /\ Range(filtered_questions) \subseteq Range(questions)
        /\ Kept = <<>> => filtered_questions = questions
        /\ pc /= "exit"
        /\ pc = "ask" => filtered_questions[qi] \in Range(questions)

C3_Witness ==
    /\ pc = "ask"
    /\ questions /= <<>>
    /\ Matching = <<>>
    /\ qi = Len(questions)

\* C4 as stated: each question occurs in the result no more often than
\* among the matching questions, and the result is their multiset when at
\* most 10 match.
C4_Original ==
    FilterDone =>
        /\ \A q \in Range(filtered_questions) \cup Range(Matching) :
              Occurrences(filtered_questions, q) <= Occurrences(Matching, q)
        /\ Len(Matching) <= MaxQuestions =>
              \A q \in Range(filtered_questions) \cup Range(Matching) :
                  Occurrences(filtered_questions, q) = Occurrences(Matching, q)

\* C4, amended: no question occurs in the result more often than in the
\* bank, for every bank size; and when the tests of filter_questions let at
\* least one question through, the result has min(10, number let through)
\* questions, none more often than among those let through, and is exactly
\* their multiset when at most 10 are let through.
C4_PermuteTruncate ==
    FilterDone =>
        /\ \A q \in Range(filtered_questions) :
              Occurrences(filtered_questions, q) <= Occurrences(questions, q)
        /\ Kept /= <<>> =>
              /\ Len(filtered_questions) = Min(MaxQuestions, Len(Kept))
              /\ \A q \in Range(filtered_questions) \cup Range(Kept) :
                    /\ Occurrences(filtered_questions, q) <= Occurrences(Kept, q)
                    /\ Len(Kept) <= MaxQuestions =>
                          Occurrences(filtered_questions, q) = Occurrences(Kept, q)

\* A shuffled selection that had to be truncated, from a bank that repeats
\* its questions
C4_Witness ==
    /\ FilterDone
    /\ Len(Kept) > MaxQuestions
    /\ Len(filtered_questions) = MaxQuestions
    /\ filtered_questions /= Take(Kept, MaxQuestions)
    /\ \E q \in Range(filtered_questions) : Occurrences(filtered_questions, q) > 1

\* C5 as stated: a pass of ask_question's loop made when exactly 10 seconds
\* have elapsed resolves the question as TimedOut with (None, false),
\* whatever the line is.
C5_Original ==
    (last.outcome /= "None" /\ last.elapsed = 100) =>
        /\ last.outcome = "TimedOut"
        /\ ret = [answer |-> None, is_quick |-> FALSE]

\* C5, amended: a pass made when more than 10 seconds have elapsed resolves
\* the question as TimedOut with (None, false), whatever the line is.
C5_TimedOutPastDeadline ==
    (last.outcome /= "None" /\ last.elapsed > 100) =>
        /\ last.outcome = "TimedOut"
        /\ pc /= "ask"
        /\ ret = [answer |-> None, is_quick |-> FALSE]
        /\ resolved[Len(resolved)].outcome = "TimedOut"

\* A valid option letter typed after the deadline
C5_Witness ==
    /\ last.elapsed = 101
    /\ last.line = "A"
    /\ last.outcome = "TimedOut"
    /\ ret.answer = None

\* C6: a valid option letter accepted by ask_question is flagged quick iff
\* the time taken is strictly below 5 seconds: 4.9 s is quick, 5.0 s is not.
C6_QuickBoundary ==
    last.outcome = "Answered" =>
        /\ ret.answer = Upper(last.line)
        /\ ret.is_quick <=> last.time_taken < 50
        /\ last.time_taken = 49 => ret.is_quick
        /\ last.time_taken = 50 => ~ret.is_quick

\* An answer at exactly 5.0 s, after one at 4.9 s that was quick
C6_Witness ==
    /\ last.outcome = "Answered"
    /\ last.time_taken = 50
    /\ ~ret.is_quick
    /\ Len(resolved) = 2
    /\ resolved[1].is_quick

\* C7: the deadline is enforced without any input: once the deadline of
\* the question being asked has passed, the program itself can take the
\* step that resolves the question, whether or not a line arrives.
C7_DeadlineEnforced ==
    (pc = "ask" /\ now - start_time > Deadline) => ENABLED Internal

\* C7 as a liveness property of SpecLive: the question being asked is
\* resolved at some time after its deadline has passed.
C7_EventuallyResolved ==
    (pc = "ask" /\ now - start_time > Deadline) ~> (pc /= "ask")

\* C8: a line that is neither the skip sentinel nor an option letter, read
\* before the deadline, repeats the prompt and changes nothing else.
C8_InvalidLine ==
    [][\A line \in Lines :
          ( /\ AskQuestion(line)
            /\ Upper(line) /= "S"
            /\ Upper(line) \notin Range(filtered_questions[qi].options)
            /\ now - start_time < 100 )
          => /\ pc' = "ask"
             /\ prompts' = prompts + 1
             /\ UNCHANGED <<score, user_answers, current_question, qi,
                            start_time, now, ret, resolved, shown>>]_vars

\* The prompt repeated after an invalid line typed before the deadline
C8_Witness ==
    /\ pc = "ask"
    /\ last.outcome = "Invalid"
    /\ last.elapsed = 49
    /\ prompts = 2
    /\ Len(user_answers) = 1

NumAnswered == Cardinality({i \in 1..Len(resolved) : resolved[i].outcome = "Answered"})

\* The answer ask_question returned is still to be handed to check_answer
Pending == IF pc = "returned" /\ ret.answer /= None THEN 1 ELSE 0

\* C9: a question resolved as Skipped or TimedOut leaves score and the
\* answer log unchanged and the loop goes on to the next question; the log
\* holds one record per question resolved as Answered.
C9_SkipsNotLogged ==
    /\ [](Len(user_answers) = NumAnswered - Pending)
    /\ [][( /\ Len(resolved') = Len(resolved) + 1
            /\ resolved'[Len(resolved')].outcome \in {"Skipped", "TimedOut"} )
          => ( /\ pc' = "returned"
               /\ ret'.answer = None
               /\ UNCHANGED <<score, user_answers>> )]_vars
    /\ [][(pc = "returned" /\ ret.answer = None /\ pc' /= pc)
          => ( /\ pc' = "loop"
               /\ UNCHANGED <<score, user_answers, qi, current_question>> )]_vars

\* A session with one question answered, one skipped and one timed out
C9_Witness ==
    /\ pc = "loop"
    /\ Len(resolved) = 2
    /\ resolved[1].outcome = "Answered"
    /\ resolved[2].outcome \in {"Skipped", "TimedOut"}
    /\ Len(user_answers) = 1
    /\ qi = Len(filtered_questions)

\* C10: check_answer appends exactly one record, whose is_correct tells
\* whether user_answer is the question's correct_answer, and adds one point
\* to score when it is and nothing when it is not.
C10_CheckAnswer ==
    [][(pc = "returned" /\ pc' = "checked") =>
          LET q == filtered_questions[qi]
              rec == user_answers'[Len(user_answers')]
          IN  /\ Len(user_answers') = Len(user_answers) + 1
              /\ SubSeq(user_answers', 1, Len(user_answers)) = user_answers
              /\ rec.question = q.question
              /\ rec.user_answer = ret.answer
              /\ rec.correct_answer = q.correct_answer
              /\ rec.is_correct <=> (ret.answer = q.correct_answer)
              /\ rec.is_correct => score' = score + 2
              /\ ~rec.is_correct => score' = score]_vars

\* A correct answer and a wrong one, both recorded
C10_Witness ==
    /\ pc = "checked"
    /\ Len(user_answers) = 2
    /\ user_answers[1].is_correct
    /\ ~user_answers[2].is_correct

\* C11: for an answered question the loop body adds exactly 0.5 to score
\* after check_answer when ask_question reported quick, whether the answer
\* was correct or not, and nothing when it did not.
C11_QuickBonus ==
    [][(pc = "checked" /\ pc' = "loop") =>
          /\ ret.is_quick => score' = score + 1
          /\ ~ret.is_quick => score' = score
          /\ user_answers' = user_answers]_vars

\* A wrong answer given quickly: half a point and no more
C11_Witness ==
    /\ pc = "loop"
    /\ Len(user_answers) = 1
    /\ ~user_answers[1].is_correct
    /\ resolved[1].is_quick
    /\ score = 1

\* C12: score is never negative and no step lowers it.
C12_ScoreMonotone ==
    /\ [](score >= 0)
    /\ [][score' >= score]_vars

\* A finished session that answered wrongly and scored
C12_Witness ==
    /\ pc = "done"
    /\ score > 0
    /\ \E i \in 1..Len(user_answers) : ~user_answers[i].is_correct

\* C13: 0 <= current_question <= len(filtered_questions) in every state of
\* a session.
C13_IndexInRange ==
    /\ 0 <= current_question
    /\ current_question <= Len(filtered_questions)

\* The last question of a session of two is being asked
C13_Witness ==
    /\ pc = "ask"
    /\ current_question = 2
    /\ Len(filtered_questions) = 2

\* C14: with an empty question bank run() stops before its loop, whatever
\* is selected: no question is presented, no progress line is printed, no
\* results report is computed; and no report or progress line ever has a
\* total of zero to divide by.
C14_EmptyBankStops ==
    /\ (pc /= "load" /\ questions = <<>>) =>
          /\ pc \in {"select_category", "select_difficulty", "filter", "exit"}
          /\ qi = 0
          /\ current_question = 0
          /\ resolved = <<>>
          /\ shown = NoShown
          /\ report = NoReport
    /\ report /= NoReport => report.total > 0
    /\ shown /= NoShown => shown.total > 0

\* run() has returned on an empty bank after a difficulty was chosen
C14_Witness ==
    /\ pc = "exit"
    /\ questions = <<>>
    /\ filtered_questions = <<>>
    /\ selected_difficulty = "Hard"

\* Answered questions that ask_question flagged quick
NumQuick ==
    Cardinality({i \in 1..Len(resolved) :
                    resolved[i].outcome = "Answered" /\ resolved[i].is_quick})

\* The three sample questions were played unfiltered in their original
\* order, answered B, C, B, and the results are out
SampleAllCorrect ==
    /\ pc \in {"results", "done"}
    /\ filtered_questions = SampleBank
    /\ Len(resolved) = 3
    /\ \A i \in 1..3 : resolved[i].answer = <<"B", "C", "B">>[i]

\* C15 as stated: that session ends with a log of 3 records, a percentage
\* of exactly 100.0 and the tier Excellent, whatever the response times.
C15_Original ==
    SampleAllCorrect =>
        /\ Len(user_answers) = 3
        /\ report.score * 100 = 100 * Point * report.total
        /\ report.tier = "Excellent"

\* C15, amended: that session ends with a log of 3 correct records and the
\* tier Excellent; its score is 3 plus 0.5 per quick answer, so that the
\* percentage is 100.0 when no answer was quick and lies between 100.0 and
\* 150.0 otherwise.
C15_SampleSession ==
    SampleAllCorrect =>
        /\ Len(user_answers) = 3
        /\ \A i \in 1..3 : user_answers[i].is_correct
        /\ report.total = 3
        /\ report.score = 6 + NumQuick
        /\ NumQuick = 0 => report.score * 100 = 100 * Point * report.total
        /\ report.score * 100 >= 100 * Point * report.total
        /\ report.score * 100 <= 150 * Point * report.total
        /\ report.tier = "Excellent"

\* Two of the three answers were quick
C15_Witness ==
    /\ SampleAllCorrect
    /\ NumQuick = 2
    /\ report.score = 8

\* C16: a session started on an engine that has already completed one
\* begins with score 0, question counter 0 and an empty answer log, and its
\* review holds only its own answers.
C16_FreshSession ==
    /\ (runs > 1 /\ pc \in {"load", "select_category", "select_difficulty",
                            "filter", "press_enter"}) =>
          /\ score = 0
          /\ current_question = 0
          /\ user_answers = <<>>
    /\ (runs > 1 /\ pc = "done") => Len(review_out) <= Len(filtered_questions)

\* C17: the deadline takes precedence over the content of the line: a line
\* read after the deadline that is a valid option letter or S resolves the
\* question as TimedOut, not Answered or Skipped, and the question is
\* neither scored nor logged.
C17_DeadlineFirst ==
    /\ [][( /\ pc = "ask"
            /\ last' /= last
            /\ now - start_time > Deadline
            /\ Upper(last'.line) \in Letters(filtered_questions[qi]) \cup {"S"} )
          => ( /\ last'.outcome = "TimedOut"
               /\ pc' = "returned"
               /\ ret' = [answer |-> None, is_quick |-> FALSE]
               /\ UNCHANGED <<score, user_answers>> )]_vars
    /\ [][(pc = "returned" /\ last.outcome = "TimedOut")
          => ( /\ pc' = "loop"
               /\ UNCHANGED <<score, user_answers>> )]_vars

\* The correct letter typed after the deadline, and the question left behind
\* with nothing scored or logged
C17_Witness ==
    /\ pc = "loop"
    /\ qi = 1
    /\ last.outcome = "TimedOut"
    /\ last.elapsed > Deadline
    /\ Upper(last.line) = filtered_questions[qi].correct_answer
    /\ score = 0
    /\ user_answers = <<>>

\* C18: option letters are matched without regard to case: a line read
\* before the deadline that equals one of the question's option letters up
\* to letter case, whatever the case of the stored letter, resolves the
\* question as Answered with that option's letter.
C18_CaseInsensitive ==
    (last.outcome /= "None" /\ ~TimeUp(last.elapsed)) =>
        \A letter \in Letters(filtered_questions[qi]) :
            Upper(letter) = Upper(last.line) =>
                /\ last.outcome = "Answered"
                /\ ret.answer = letter

NumCorrect == Cardinality({i \in 1..Len(user_answers) : user_answers[i].is_correct})

\* The quick bonus of the answer run() holds and has not yet added to score
PendingBonus == IF pc \in {"returned", "checked"} /\ ret.is_quick THEN 1 ELSE 0

\* C19 as stated: at every point of a session score is one point for each
\* log record with is_correct plus half a point for each answered question
\* flagged quick, and is at most 1.5 times the length of the log.
C19_Original ==
    /\ score = Point * NumCorrect + QuickBonus * NumQuick
    /\ 2 * score <= 3 * Point * Len(user_answers)

\* C19, amended: the equality holds whenever run() holds no answer still to
\* be processed; between ask_question returning an answer flagged quick and
\* the bonus being added, score lacks that answer's half point.  The bound
\* by 1.5 times the length of the log holds at every point.
C19_ScoreAccounting ==
    /\ pc \notin {"returned", "checked"} =>
          score = Point * NumCorrect + QuickBonus * NumQuick
    /\ pc \in {"returned", "checked"} =>
          score = Point * NumCorrect + QuickBonus * (NumQuick - PendingBonus)
    /\ 2 * score <= 3 * Point * Len(user_answers)

\* Two quick answers, one of them wrong: 1 + 0.5 + 0.5
C19_Witness ==
    /\ pc = "done"
    /\ Len(user_answers) = 2
    /\ NumCorrect = 1
    /\ NumQuick = 2
    /\ score = 4

\* C20: while the k-th question of a session is presented (k counted from
\* 1), the progress line shows k out of the number of selected questions
\* and the header shows "Question k", so both numbers lie between 1 and the
\* total.
C20_ProgressNumbers ==
    pc = "ask" =>
        /\ shown.total = Len(filtered_questions)
        /\ shown.progress = qi
        /\ shown.number = qi
        /\ 1 <= shown.progress /\ shown.progress <= shown.total
        /\ 1 <= shown.number /\ shown.number <= shown.total

====
